---- MODULE Spec2Model ----
(***************************************************************************)
(* A model of src/imp/schannel.rs: the SChannel backend of native-tls.     *)
(* The state is one TlsConnector (its configuration and the credential     *)
(* cache shared by its clones), the wall clock, and the one handshake the  *)
(* caller is driving.  The native engine (the schannel crate) is the       *)
(* environment: its answers are inputs of the actions.                     *)
(* Beside it: the builder configuration that is mapped to a native         *)
(* credential request, an established TlsStream and its queries, and the   *)
(* threads that call connect on clones of one connector.                   *)
(***************************************************************************)
EXTENDS Integers, Sequences, FiniteSets

(* ------------------------------ bounds -------------------------------- *)

\* Domain names are 1..NumDomains; one more than the cache can hold.
NumDomains == 11
\* How many connects of the cache specification may name a domain that is in
\* the cache at that moment.
MaxCacheRevisits == 1
\* The same for the handshake specification.
MaxRevisits == 2
\* How many times the clock advances.
MaxTicks == 1
\* Certificates are 1..NumCerts.
NumCerts == 2
\* The domains of the handshake specification are 1..NumSites.
NumSites == 2
\* A cipher-suite policy lists at most MaxAlgorithms algorithms in all.
MaxAlgorithms == 2
\* sign_hash_algorithms() has at most MaxComponents components between '/'.
MaxComponents == 2
\* How many threads call connect on clones of one connector.
NumThreads == 2
\* Transports are 1..NumStreams.
NumStreams == 2

(* ------------------------- program constants -------------------------- *)

\* const CREDENTIAL_CACHE_SIZE: usize = 10;
CREDENTIAL_CACHE_SIZE == 10
\* const CREDENTIAL_TTL: Duration = Duration::from_secs(10 * 60);  (seconds)
CREDENTIAL_TTL == 600
\* const SEC_E_NO_CREDENTIALS: u32 = 0x8009030E;  A u32 is the pair of its
\* 16-bit halves, high half first: 0x8009 and 0x030E.
SEC_E_NO_CREDENTIALS == <<32777, 782>>

(* ------------------------------ values -------------------------------- *)

Domains == 1..NumDomains
NoDomain == 0
NoCred == 0
Streams == 1..NumStreams
NoStream == 0
\* Where only one handshake is looked at and transports are not compared,
\* the caller's transport is this one.
AnyStream == 1
Certs == 1..NumCerts
\* res.chain() is an Option: << >> for None, <<certs>> for Some.
NoChain == << >>
SomeChain(certs) == <<certs>>

\* The clock advances by the TTL or by one second less, so that an entry is
\* looked up one second before its expiry and at it.
TickSteps == {CREDENTIAL_TTL - 1, CREDENTIAL_TTL}

\* What res.result() can be: Ok, or one of the platform's validation errors.
PlatformResults == {"Ok", "CertExpired", "UntrustedRoot"}
\* What the verification callback is handed: the platform's result and the
\* chain it built (res.chain() is an Option).
ValidationResults ==
    [result : PlatformResults,
     chain : {NoChain} \cup {SomeChain(certs) : certs \in SUBSET Certs}]

VARIABLES
    session_tickets_enabled,  \* TlsConnector.session_tickets_enabled
    accept_invalid_certs,     \* TlsConnector.accept_invalid_certs
    disable_built_in_roots,   \* TlsConnector.disable_built_in_roots
    roots,                    \* TlsConnector.roots, the caller-supplied roots
    credentials_cache,        \* TlsConnector.credentials_cache, head first
    now,                      \* SystemTime::now(), in seconds
    hs,                       \* the state of the caller's handshake
    mid,                      \* the MidHandshakeTlsStream the caller holds
    transport,                \* the transport given to the last connect/accept
    avail,                    \* the transport of mid has unread bytes
    last,                     \* what the most recent step did and returned
    revisits,                 \* connects so far to a domain then in the cache
    ticks,                    \* clock advances so far
    vres,                     \* the validation result handed to the callback
    vout,                     \* what certificate validation ended with
    builder,                  \* the TlsConnectorBuilder / TlsAcceptorBuilder
    constructed,              \* TlsConnector::new has run on builder
    supported_algorithms,     \* TlsConnector.supported_algorithms
    request,                  \* what the last SchannelCred builder was given
    tls,                      \* what the native tls_stream::TlsStream answers
    answer,                   \* what the last query of a TlsStream returned
    threads,                  \* where each thread is in its call of connect
    lock                      \* the thread that holds the cache's Mutex

vars == <<session_tickets_enabled, accept_invalid_certs, disable_built_in_roots,
          roots, credentials_cache, now, hs, mid, transport, avail, last,
          revisits, ticks,
          vres, vout, builder, constructed, supported_algorithms, request,
          tls, answer, threads, lock>>

\* The configuration the native credential builder is fed from.
mapping == <<builder, constructed, supported_algorithms, request>>

\* Everything the connector's calls and the clock leave alone.
\* An established TlsStream and the caller's last query of it.
queries == <<tls, answer>>

\* The threads that share the connector's cache, and its lock.
concurrency == <<threads, lock>>

aux == <<mapping, queries, concurrency>>

config == <<session_tickets_enabled, accept_invalid_certs,
            disable_built_in_roots, roots>>

(* ------------------------- the credential cache ----------------------- *)

\* struct CacheEntry { domain, expiry, credentials }
CacheEntry(domain, expiry, credentials) ==
    [domain |-> domain, expiry |-> expiry, credentials |-> credentials]

\* for i in 0..cache.len() { if &cache[i].domain == domain { found = Some(i);
\* break; } }  -- the first matching index, 0 for None (indices are 1-based).
find(cache, domain) ==
    IF \E i \in 1..Len(cache) : cache[i].domain = domain
    THEN CHOOSE i \in 1..Len(cache) :
            /\ cache[i].domain = domain
            /\ \A j \in 1..(i - 1) : cache[j].domain # domain
    ELSE 0

\* VecDeque::remove(idx): the deque without its idx-th element.
remove(cache, idx) ==
    SubSeq(cache, 1, idx - 1) \o SubSeq(cache, idx + 1, Len(cache))

\* A pop that takes the newest entry instead of the oldest.
pop_back(cache) == SubSeq(cache, 1, Len(cache) - 1)

\* VecDeque::pop_front
pop_front(cache) == SubSeq(cache, 2, Len(cache))

\* VecDeque::push_back
push_back(cache, entry) == Append(cache, entry)

CachedDomains(cache) == {cache[i].domain : i \in 1..Len(cache)}
CachedCreds(cache) == {cache[i].credentials : i \in 1..Len(cache)}

\* builder.acquire(direction): a handle distinct from every handle alive.
\* Handles are compared for identity only, so the least free one stands for
\* any of them.
acquire(alive) == CHOOSE c \in 1..(Cardinality(alive) + 1) : c \notin alive

\* A lookup that still returns an entry at the instant it expires.
get_credentials_at_expiry(enabled, cache, domain, t, acquire_ok, alive) ==
    LET idx == IF enabled THEN find(cache, domain) ELSE 0
        entry == cache[idx]
        removed == IF idx # 0 THEN remove(cache, idx) ELSE cache
        fresh == IF acquire_ok THEN acquire(alive \cup CachedCreds(removed))
                 ELSE NoCred
    IN  IF idx # 0 /\ entry.expiry >= t
        THEN [cache |-> push_back(removed,
                           CacheEntry(entry.domain, t + CREDENTIAL_TTL,
                                      entry.credentials)),
              cred |-> entry.credentials, found |-> TRUE, hit |-> TRUE,
              acquires |-> 0]
        ELSE [cache |-> removed, cred |-> fresh, found |-> idx # 0,
              hit |-> FALSE, acquires |-> 1]

\* A lookup that caches the fresh credential as soon as it is acquired.
get_credentials_caching_early(enabled, cache, domain, t, acquire_ok, alive) ==
    LET idx == IF enabled THEN find(cache, domain) ELSE 0
        entry == cache[idx]
        removed == IF idx # 0 THEN remove(cache, idx) ELSE cache
        fresh == IF acquire_ok THEN acquire(alive \cup CachedCreds(removed))
                 ELSE NoCred
    IN  IF idx # 0 /\ entry.expiry > t
        THEN [cache |-> push_back(removed,
                           CacheEntry(entry.domain, t + CREDENTIAL_TTL,
                                      entry.credentials)),
              cred |-> entry.credentials, found |-> TRUE, hit |-> TRUE,
              acquires |-> 0]
        ELSE [cache |-> IF enabled /\ fresh # NoCred
                           /\ Len(removed) < CREDENTIAL_CACHE_SIZE
                        THEN push_back(removed,
                                CacheEntry(domain, t + CREDENTIAL_TTL, fresh))
                        ELSE removed,
              cred |-> fresh, found |-> idx # 0, hit |-> FALSE,
              acquires |-> 1]

\* A lookup that moves a live entry to the tail with its old expiry.
get_credentials_not_renewing(enabled, cache, domain, t, acquire_ok, alive) ==
    LET idx == IF enabled THEN find(cache, domain) ELSE 0
        entry == cache[idx]
        removed == IF idx # 0 THEN remove(cache, idx) ELSE cache
        fresh == IF acquire_ok THEN acquire(alive \cup CachedCreds(removed))
                 ELSE NoCred
    IN  IF idx # 0 /\ entry.expiry > t
        THEN [cache |-> push_back(removed, entry),
              cred |-> entry.credentials, found |-> TRUE, hit |-> TRUE,
              acquires |-> 0]
        ELSE [cache |-> removed, cred |-> fresh, found |-> idx # 0,
              hit |-> FALSE, acquires |-> 1]

\* TlsConnector::get_credentials.  acquire_ok is the native engine's answer
\* should it be asked.  The result holds the cache as the call leaves it,
\* the io::Result (cred is NoCred for Err), whether the scan found an entry,
\* whether the cached credential was returned, and how many native
\* acquisitions were requested.
get_credentials(enabled, cache, domain, t, acquire_ok, alive) ==
    LET idx == IF enabled THEN find(cache, domain) ELSE 0
        entry == cache[idx]
        removed == IF idx # 0 THEN remove(cache, idx) ELSE cache
        fresh == IF acquire_ok THEN acquire(alive \cup CachedCreds(removed))
                 ELSE NoCred
    IN  IF idx # 0 /\ entry.expiry > t
        THEN [cache |-> push_back(removed,
                           CacheEntry(entry.domain, t + CREDENTIAL_TTL,
                                      entry.credentials)),
              cred |-> entry.credentials, found |-> TRUE, hit |-> TRUE,
              acquires |-> 0]
        ELSE [cache |-> removed, cred |-> fresh, found |-> idx # 0,
              hit |-> FALSE, acquires |-> 1]

\* A store that never evicts.
store_without_eviction(enabled, cache, domain, cred, t) ==
    IF enabled
    THEN LET idx == find(cache, domain)
             removed == IF idx # 0 THEN remove(cache, idx) ELSE cache
         IN  push_back(removed, CacheEntry(domain, t + CREDENTIAL_TTL, cred))
    ELSE cache

\* A store that leaves the domain's old entry in place.
store_without_replacing(enabled, cache, domain, cred, t) ==
    IF enabled
    THEN LET evicted == IF Len(cache) = CREDENTIAL_CACHE_SIZE
                        THEN pop_front(cache) ELSE cache
         IN  push_back(evicted, CacheEntry(domain, t + CREDENTIAL_TTL, cred))
    ELSE cache

\* A store that does not look at session_tickets_enabled.
store_always(enabled, cache, domain, cred, t) ==
    LET idx == find(cache, domain)
        removed == IF idx # 0 THEN remove(cache, idx) ELSE cache
        evicted == IF Len(removed) = CREDENTIAL_CACHE_SIZE
                   THEN pop_front(removed) ELSE removed
    IN  push_back(evicted, CacheEntry(domain, t + CREDENTIAL_TTL, cred))

\* TlsConnector::store_credentials
store_credentials(enabled, cache, domain, cred, t) ==
    IF enabled
    THEN LET idx == find(cache, domain)
             removed == IF idx # 0 THEN remove(cache, idx) ELSE cache
             evicted == IF Len(removed) = CREDENTIAL_CACHE_SIZE
                        THEN pop_front(removed) ELSE removed
         IN  push_back(evicted, CacheEntry(domain, t + CREDENTIAL_TTL, cred))
    ELSE cache

(* ----------------------------- trust policy --------------------------- *)

NoUserRoot == "NoUserRoot"

\* builder.verify_callback(|_| Ok(()))
accept_all_callback(res) == "Ok"

\* A callback that looks for a caller-supplied root before it looks at the
\* platform's result.
own_root_callback_chain_first(roots_copy, res) ==
    IF /\ res.chain # NoChain
       /\ \E cert \in res.chain[1] : \E root_cert \in roots_copy :
             root_cert = cert
    THEN res.result
    ELSE NoUserRoot

\* The callback installed when disable_built_in_roots is set.
own_root_callback(roots_copy, res) ==
    IF res.result # "Ok"
    THEN res.result
    ELSE IF /\ res.chain # NoChain
            /\ \E cert \in res.chain[1] : \E root_cert \in roots_copy :
                  root_cert = cert
         THEN "Ok"
         ELSE NoUserRoot

\* The two flags tested in the other order.
install_callback_roots_first(accept_invalid, disable_roots) ==
    IF disable_roots THEN "OwnRoot"
    ELSE IF accept_invalid THEN "AcceptAll"
    ELSE "None"

\* The if / else if of connect that installs a callback, or none.
install_callback(accept_invalid, disable_roots) ==
    IF accept_invalid THEN "AcceptAll"
    ELSE IF disable_roots THEN "OwnRoot"
    ELSE "None"

\* What certificate validation ends with: the installed callback's answer,
\* or the platform's own result when none is installed.
validate(accept_invalid, disable_roots, roots_copy, res) ==
    LET cb == install_callback(accept_invalid, disable_roots)
    IN  IF cb = "AcceptAll" THEN accept_all_callback(res)
        ELSE IF cb = "OwnRoot" THEN own_root_callback(roots_copy, res)
        ELSE res.result

(* --------------------------- the native engine ------------------------ *)

NativeOutcomes == {"Complete", "Failure", "Interrupted"}

\* One call of the native handshake driver (tls_stream::Builder::connect,
\* Builder::accept, tls_stream::MidHandshakeTlsStream::handshake).  With no
\* unread bytes on the transport it cannot advance and reports Interrupted;
\* otherwise n is how far the peer's bytes take it, and it completes only if
\* certificate validation ended with Ok.
native_handshake(bytes, n, verdict) ==
    IF ~bytes THEN "Interrupted"
    ELSE IF n = "Complete" /\ verdict # "Ok" THEN "Failure"
    ELSE n

\* The error a native Failure carries: the validation error, or the
\* engine's own.
native_error(bytes, n, verdict) ==
    IF bytes /\ n = "Complete" /\ verdict # "Ok" THEN verdict ELSE "Native"

\* Every way certificate validation can end for this connector.
Verdicts(accept_invalid, disable_roots, roots_copy) ==
    {validate(accept_invalid, disable_roots, roots_copy, res) :
        res \in ValidationResults}

\* Every (outcome, error) one native call can return, given which transports
\* (with or without unread bytes) and which validation verdicts are possible.
NativeCalls(transports, verdicts) ==
    {[native |-> native_handshake(bytes, n, verdict),
      error |-> native_error(bytes, n, verdict), bytes |-> bytes] :
        bytes \in transports, n \in NativeOutcomes, verdict \in verdicts}

(* --------------------------- handshake results ------------------------ *)

\* A conversion that turns every native error into Failure.
from_handshake_error_as_failure(e) == "Failure"

\* impl From<tls_stream::HandshakeError<S>> for HandshakeError<S>
from_handshake_error(e) ==
    IF e = "Failure" THEN "Failure" ELSE "WouldBlock"

\* match native { Ok(s) => Ok(TlsStream(s)), Err(e) => Err(e.into()) }
handshake_result(native) ==
    IF native = "Complete" THEN "Ok" ELSE from_handshake_error(native)

\* The state the handshake is in once a call has returned `result`.
handshake_state(result) ==
    IF result = "Ok" THEN "Complete"
    ELSE IF result = "WouldBlock" THEN "InProgress"
    ELSE "Failed"

NoMid == [domain |-> NoDomain, cred |-> NoCred, stream |-> NoStream]

\* A wrapper that does not hand the transport on.
suspended_without_transport(domain, cred, stream) ==
    [domain |-> domain, cred |-> cred, stream |-> NoStream]

\* HandshakeError::WouldBlock(MidHandshakeTlsStream(s)): the native
\* suspended handshake s, with its context and its transport, wrapped.
suspended(domain, cred, stream) ==
    [domain |-> domain, cred |-> cred, stream |-> stream]

\* What a step that is no call of this layer leaves in `last`.
Idle(op) ==
    [op |-> op, domain |-> NoDomain, found |-> FALSE, hit |-> FALSE,
     acquires |-> 0, cred |-> NoCred, bytes |-> FALSE, native |-> "None",
     steps |-> 0, result |-> "None", error |-> "None"]

\* What a call that ran the native handshake leaves in `last`.
Returned(op, domain, found, hit, acquires, cred, out) ==
    [op |-> op, domain |-> domain, found |-> found, hit |-> hit,
     acquires |-> acquires, cred |-> cred, bytes |-> out.bytes,
     native |-> out.native, steps |-> 1,
     result |-> handshake_result(out.native),
     error |-> IF out.native = "Failure" THEN out.error ELSE "None"]

\* A failed acquisition that was tried a second time before giving up.
AcquireFailedAfterRetry(op, domain, found) ==
    [op |-> op, domain |-> domain, found |-> found, hit |-> FALSE,
     acquires |-> 2, cred |-> NoCred, bytes |-> FALSE, native |-> "None",
     steps |-> 0, result |-> "Failure", error |-> "Acquire"]

\* let cred = ...?  -- the early return of a failed credential acquisition.
AcquireFailed(op, domain, found) ==
    [op |-> op, domain |-> domain, found |-> found, hit |-> FALSE,
     acquires |-> 1, cred |-> NoCred, bytes |-> FALSE, native |-> "None",
     steps |-> 0, result |-> "Failure", error |-> "Acquire"]

(* ------------------- protocol and algorithm mapping ------------------- *)

\* Option<T>: << >> for None, <<v>> for Some(v).
None == << >>
Some(v) == <<v>>

\* enum ::Protocol, in declaration order.
Protocol == <<"Sslv3", "Tlsv10", "Tlsv11", "Tlsv12">>

\* `p as usize`: the discriminant of a fieldless enum variant is its
\* position in the declaration, counted from 0.
as_usize(p) == (CHOOSE i \in 1..Len(Protocol) : Protocol[i] = p) - 1

\* static PROTOCOLS: the native protocol flags, oldest first.
PROTOCOLS == <<"Ssl3", "Tls10", "Tls11", "Tls12">>

\* The protocol version a variant of either enum names: SSL 3.0, TLS 1.0,
\* TLS 1.1, TLS 1.2, oldest first.
VersionOf ==
    [Sslv3 |-> 1, Tlsv10 |-> 2, Tlsv11 |-> 3, Tlsv12 |-> 4,
     Ssl3 |-> 1, Tls10 |-> 2, Tls11 |-> 3, Tls12 |-> 4]

\* slice.get(..n): None when n is past the end.
get_to(s, n) == IF n <= Len(s) THEN Some(SubSeq(s, 1, n)) ELSE None

\* slice.get(n..): None when n is past the end.
get_from(s, n) ==
    IF n <= Len(s) THEN Some(SubSeq(s, n + 1, Len(s))) ELSE None

\* fn convert_protocols(min, max)
convert_protocols(min, max) ==
    LET cut == IF max = None THEN None
               ELSE get_to(PROTOCOLS, as_usize(max[1]))
        protocols == IF cut # None THEN cut[1] ELSE PROTOCOLS
        rest == IF min = None THEN None
                ELSE get_from(protocols, as_usize(min[1]))
    IN  IF rest # None THEN rest[1] ELSE protocols

\* The variants of the four abstract enumerations (__NonExhaustive is no
\* value a caller can pass).
TlsKeyExchangeAlgorithm == {"Dhe", "Ecdhe", "Rsa"}
TlsSignatureAlgorithm == {"Dss", "Ecdsa", "Rsa"}
TlsBulkEncryptionAlgorithm ==
    {"Aes128", "Aes256", "Des", "Rc2", "Rc4", "TripleDes"}
TlsHashAlgorithm == {"Md5", "Sha1", "Sha256", "Sha384"}

\* The native algorithm identifiers the conversions name.
Algorithm ==
    {"DhEphem", "EcdhEphem", "RsaKeyx", "DssSign", "Ecdsa", "RsaSign",
     "Aes128", "Aes256", "Des", "Rc2", "Rc4", "TripleDes",
     "Md5", "Sha1", "Sha256", "Sha384"}

\* impl From<TlsKeyExchangeAlgorithm> for Algorithm
from_key_exchange(other) ==
    CASE other = "Dhe" -> "DhEphem"
      [] other = "Ecdhe" -> "EcdhEphem"
      [] other = "Rsa" -> "RsaKeyx"

\* A conversion that gives the RSA signature algorithm the identifier of
\* RSA key exchange.
from_signature_rsa_as_keyx(other) ==
    CASE other = "Dss" -> "DssSign"
      [] other = "Ecdsa" -> "Ecdsa"
      [] other = "Rsa" -> "RsaKeyx"

\* impl From<TlsSignatureAlgorithm> for Algorithm
from_signature(other) ==
    CASE other = "Dss" -> "DssSign"
      [] other = "Ecdsa" -> "Ecdsa"
      [] other = "Rsa" -> "RsaSign"

\* impl From<TlsBulkEncryptionAlgorithm> for Algorithm
from_bulk_encryption(other) ==
    CASE other = "Aes128" -> "Aes128"
      [] other = "Aes256" -> "Aes256"
      [] other = "Des" -> "Des"
      [] other = "Rc2" -> "Rc2"
      [] other = "Rc4" -> "Rc4"
      [] other = "TripleDes" -> "TripleDes"

\* impl From<TlsHashAlgorithm> for Algorithm
from_hash(other) ==
    CASE other = "Md5" -> "Md5"
      [] other = "Sha1" -> "Sha1"
      [] other = "Sha256" -> "Sha256"
      [] other = "Sha384" -> "Sha384"

\* fn expand_algorithms(cipher_suites): each list is mapped element by
\* element (iter().copied().map(Algorithm::from)) and appended to ret.
expand_algorithms(cipher_suites) ==
    [i \in 1..Len(cipher_suites.key_exchange) |->
        from_key_exchange(cipher_suites.key_exchange[i])]
       \o [i \in 1..Len(cipher_suites.signature) |->
              from_signature(cipher_suites.signature[i])]
       \o [i \in 1..Len(cipher_suites.bulk_encryption) |->
              from_bulk_encryption(cipher_suites.bulk_encryption[i])]
       \o [i \in 1..Len(cipher_suites.hash) |->
              from_hash(cipher_suites.hash[i])]

\* Every CipherSuiteSet that lists `total` algorithms.
CipherSuiteSetsOf(total) ==
    UNION {[key_exchange : [1..a -> TlsKeyExchangeAlgorithm],
            signature : [1..b -> TlsSignatureAlgorithm],
            bulk_encryption : [1..c -> TlsBulkEncryptionAlgorithm],
            hash : [1..(total - a - b - c) -> TlsHashAlgorithm]] :
              <<a, b, c>> \in {t \in (0..total) \X (0..total) \X (0..total) :
                                  t[1] + t[2] + t[3] <= total}}

\* builder.cipher_suites: None, or a set of at most MaxAlgorithms algorithms.
CipherSuitePolicies ==
    {None} \cup {Some(cs) : cs \in UNION {CipherSuiteSetsOf(total) :
                                             total \in 0..MaxAlgorithms}}

\* builder.min_protocol, builder.max_protocol
ProtocolBounds ==
    {None} \cup {Some(Protocol[i]) : i \in 1..Len(Protocol)}

Builders ==
    [min_protocol : ProtocolBounds, max_protocol : ProtocolBounds,
     identity : BOOLEAN, cipher_suites : CipherSuitePolicies]

DefaultBuilder ==
    [min_protocol |-> None, max_protocol |-> None, identity |-> FALSE,
     cipher_suites |-> None]

\* No credential has been requested of the native builder.
NoRequest ==
    [direction |-> "None", enabled_protocols |-> << >>, cert |-> FALSE,
     supported_algorithms |-> << >>]

MappingIdle ==
    /\ builder = DefaultBuilder
    /\ constructed = FALSE
    /\ supported_algorithms = << >>
    /\ request = NoRequest

(* ---------------------- queries of a TlsStream ------------------------ *)

\* A cast that drops the top bit instead of reading it as the sign.
as_i32_without_sign(u) == (u[1] % 2 ^ 15) * 2 ^ 16 + u[2]

\* `u as i32` for a u32: the same 32 bits read as two's complement.
as_i32(u) ==
    IF u[1] >= 2 ^ 15 THEN (u[1] - 2 ^ 16) * 2 ^ 16 + u[2]
    ELSE u[1] * 2 ^ 16 + u[2]

\* io::Error: raw_os_error() is Some(code) for an OS error, None otherwise.
OsError(code) == [raw |-> Some(code)]
CustomError == [raw |-> None]

\* The errors a native call may return: the HRESULT SEC_E_NO_CREDENTIALS
\* (0x8009030E), the code with the same low 31 bits (0x0009030E), another
\* HRESULT (0x80090301), and an error that carries no OS code.
NativeErrors ==
    {OsError(as_i32(<<32777, 782>>)),
     OsError(as_i32(<<9, 782>>)),
     OsError(as_i32(<<32777, 769>>)),
     CustomError}

\* io::Result<CertContext>
NoCert == 0
OwnCert == 1
PeerCert == 2
OkCert(cert) == [ok |-> TRUE, value |-> cert, error |-> CustomError]
ErrCert(e) == [ok |-> FALSE, value |-> NoCert, error |-> e]

\* io::Result<String>: a string is the sequence of its components between
\* '/' characters (at least one, possibly empty).
OkString(components) ==
    [ok |-> TRUE, value |-> components, error |-> CustomError]
ErrString(e) == [ok |-> FALSE, value |-> << >>, error |-> e]

\* What a component of sign_hash_algorithms() may be.
Components ==
    {"RSA", "MD5", "SHA1", "SHA256", "SHA384", "SHA512", "SHA3-256",
     "sha256", ""}

SignHashStrings ==
    UNION {[1..n -> Components] : n \in 1..MaxComponents}

\* The native TlsStream as the queries see it.
TlsStreams ==
    [is_server : BOOLEAN,
     certificate : {OkCert(OwnCert)} \cup {ErrCert(e) : e \in NativeErrors},
     peer_certificate :
        {OkCert(PeerCert)} \cup {ErrCert(e) : e \in NativeErrors},
     sign_hash_algorithms :
        {OkString(s) : s \in SignHashStrings}
           \cup {ErrString(OsError(as_i32(<<32777, 782>>)))},
     fingerprint : {OkString(<<"digest">>), ErrString(CustomError)}]

\* Result<Option<_>, Error> of a query.
NoAnswer ==
    [op |-> "None", kind |-> "Idle", cert |-> NoCert, hash |-> "",
     error |-> CustomError]
OkSome(op, cert, hash) ==
    [op |-> op, kind |-> "Some", cert |-> cert, hash |-> hash,
     error |-> CustomError]
OkNone(op) ==
    [op |-> op, kind |-> "None", cert |-> NoCert, hash |-> "",
     error |-> CustomError]
Err(op, e) ==
    [op |-> op, kind |-> "Err", cert |-> NoCert, hash |-> "", error |-> e]

\* TlsStream::peer_certificate
peer_certificate(stream) ==
    LET cert == stream.peer_certificate
    IN  IF cert.ok THEN OkSome("peer_certificate", cert.value, "")
        ELSE IF cert.error.raw = Some(as_i32(SEC_E_NO_CREDENTIALS))
        THEN OkNone("peer_certificate")
        ELSE Err("peer_certificate", cert.error)

\* str::split('/'): the components, first one first.
split(components) == components

\* str::rsplit('/'): the components, last one first.
rsplit(components) ==
    [i \in 1..Len(components) |-> components[Len(components) - i + 1]]

\* Iterator::next().unwrap()
next(iterator) == iterator[1]

\* TlsStream::tls_server_end_point
tls_server_end_point(stream) ==
    LET op == "tls_server_end_point"
        cert == IF stream.is_server THEN stream.certificate
                ELSE stream.peer_certificate
        signature_algorithms == stream.sign_hash_algorithms
        name == next(rsplit(signature_algorithms.value))
        hash == IF name \in {"MD5", "SHA1", "SHA256"} THEN "sha256"
                ELSE IF name = "SHA384" THEN "sha384"
                ELSE IF name = "SHA512" THEN "sha512"
                ELSE ""
    IN  IF ~cert.ok
        THEN IF cert.error.raw = Some(as_i32(SEC_E_NO_CREDENTIALS))
             THEN OkNone(op)
             ELSE Err(op, cert.error)
        ELSE IF ~signature_algorithms.ok
        THEN Err(op, signature_algorithms.error)
        ELSE IF hash = "" THEN OkNone(op)
        ELSE IF ~stream.fingerprint.ok THEN Err(op, stream.fingerprint.error)
        ELSE OkSome(op, cert.value, hash)

\* A stream nobody queries.
IdleStream ==
    [is_server |-> FALSE, certificate |-> OkCert(OwnCert),
     peer_certificate |-> OkCert(PeerCert),
     sign_hash_algorithms |-> OkString(<<"RSA", "SHA256">>),
     fingerprint |-> OkString(<<"digest">>)]

QueriesIdle ==
    /\ tls = IdleStream
    /\ answer = NoAnswer

(* ------------------- threads sharing one connector -------------------- *)

Threads == 1..NumThreads
NoThread == 0

\* A thread that has not called connect.
IdleThread == [pc |-> "idle", domain |-> NoDomain, found |-> 0,
               cred |-> NoCred]

\* A Mutex that lets a second thread in while it is held.
lock_without_waiting(holder) == TRUE

\* Mutex::lock returns once no thread holds the mutex.
lock_acquired(holder) == holder = NoThread

\* The credential handles some thread or the cache holds.
AliveCreds(cache, ts) ==
    (CachedCreds(cache) \cup {ts[t].cred : t \in Threads}) \ {NoCred}

ConcurrencyIdle ==
    /\ threads = [t \in Threads |-> IdleThread]
    /\ lock = NoThread

AuxIdle == MappingIdle /\ QueriesIdle /\ ConcurrencyIdle

(* -------------------------------- actions ----------------------------- *)

\* Domain names are only compared for equality, so a domain that is not in
\* the cache stands for every such domain: the caller names a cached domain
\* or the first domain after the cached ones.
NewDomain(cache) ==
    {d \in Domains : /\ \A e \in CachedDomains(cache) : e < d
                     /\ \A e \in 1..(d - 1) :
                           \E c \in CachedDomains(cache) : e <= c}

ConnectDomains(cache) == CachedDomains(cache) \cup NewDomain(cache)

\* TlsConnector::new, and a caller that has called nothing yet.
Start ==
    /\ roots = {1}
    /\ credentials_cache = << >>
    /\ now = 0
    /\ hs = "NotStarted"
    /\ mid = NoMid
    /\ transport = NoStream
    /\ avail = FALSE
    /\ last = Idle("new")
    /\ revisits = 0
    /\ ticks = 0
    /\ vres = [result |-> "Ok", chain |-> NoChain]
    /\ vout = "Idle"
    /\ AuxIdle

Init ==
    /\ session_tickets_enabled \in BOOLEAN
    /\ accept_invalid_certs \in BOOLEAN
    /\ disable_built_in_roots \in BOOLEAN
    /\ Start

\* TlsConnector::connect(domain, stream).  A handshake the caller still held
\* is dropped.  The transport may or may not have the peer's bytes (a
\* blocking transport always does).  The clock is read once per call: the
\* lookup and the store of one connect see the same time.
Connect(domain, stream) ==
    /\ domain \in ConnectDomains(credentials_cache)
    /\ transport' = stream
    /\ revisits' = IF domain \in CachedDomains(credentials_cache)
                   THEN revisits + 1 ELSE revisits
    /\ \E acquire_ok \in BOOLEAN,
          out \in NativeCalls(BOOLEAN, Verdicts(accept_invalid_certs,
                                                disable_built_in_roots, roots)) :
          LET got == get_credentials(session_tickets_enabled,
                                     credentials_cache, domain, now,
                                     acquire_ok, {})
          IN  IF got.cred = NoCred
              THEN /\ credentials_cache' = got.cache
                   /\ hs' = "Failed"
                   /\ mid' = NoMid
                   /\ last' = AcquireFailed("connect", domain, got.found)
              ELSE /\ credentials_cache' =
                        IF out.native = "Complete"
                        THEN store_credentials(session_tickets_enabled,
                                               got.cache, domain, got.cred, now)
                        ELSE got.cache
                   /\ hs' = handshake_state(handshake_result(out.native))
                   /\ mid' = IF out.native = "Interrupted"
                             THEN suspended(domain, got.cred, stream)
                             ELSE NoMid
                   /\ last' = Returned("connect", domain, got.found, got.hit,
                                       got.acquires, got.cred, out)
    /\ avail' = FALSE
    /\ UNCHANGED <<config, now, ticks, vres, vout, aux>>

\* TlsAcceptor::accept(stream)
Accept(stream) ==
    /\ transport' = stream
    /\ \E acquire_ok \in BOOLEAN, out \in NativeCalls(BOOLEAN, {"Ok"}) :
          LET cred == IF acquire_ok
                      THEN acquire(CachedCreds(credentials_cache))
                      ELSE NoCred
          IN  IF cred = NoCred
              THEN /\ hs' = "Failed"
                   /\ mid' = NoMid
                   /\ last' = AcquireFailed("accept", NoDomain, FALSE)
              ELSE /\ hs' = handshake_state(handshake_result(out.native))
                   /\ mid' = IF out.native = "Interrupted"
                             THEN suspended(NoDomain, cred, stream)
                             ELSE NoMid
                   /\ last' = Returned("accept", NoDomain, FALSE, FALSE, 1, cred,
                                       out)
    /\ avail' = FALSE
    /\ UNCHANGED <<config, credentials_cache, now, revisits, ticks, vres, vout,
                   aux>>

\* MidHandshakeTlsStream::handshake(self): the caller resumes the handshake
\* it holds.  A client handshake still carries the callback connect installed.
Resume ==
    /\ hs = "InProgress"
    /\ \E out \in NativeCalls({avail},
                   IF mid.domain = NoDomain THEN {"Ok"}
                   ELSE Verdicts(accept_invalid_certs, disable_built_in_roots,
                                 roots)) :
          /\ hs' = handshake_state(handshake_result(out.native))
          /\ mid' = IF out.native = "Interrupted"
                    THEN suspended(mid.domain, mid.cred, mid.stream)
                    ELSE NoMid
          /\ last' = Returned("resume", mid.domain, FALSE, FALSE, 0,
                              mid.cred, out)
    /\ avail' = FALSE
    /\ UNCHANGED <<config, credentials_cache, now, transport, revisits, ticks,
                   vres, vout, aux>>

\* The peer's next bytes arrive on the transport of the suspended handshake.
Deliver ==
    /\ hs = "InProgress"
    /\ ~avail
    /\ avail' = TRUE
    /\ last' = Idle("deliver")
    /\ UNCHANGED <<config, credentials_cache, now, hs, mid, transport,
                   revisits, ticks, vres, vout, aux>>

\* Time passes.
Tick(d) ==
    /\ ticks < MaxTicks
    /\ ticks' = ticks + 1
    /\ now' = now + d
    /\ last' = Idle("tick")
    /\ UNCHANGED <<config, credentials_cache, hs, mid, transport, avail,
                   revisits, vres, vout, aux>>

\* The caller may name a cached domain only `max` times in a behaviour.
MayConnect(domain, max) ==
    domain \in CachedDomains(credentials_cache) => revisits < max

\* One caller, a few domains, every configuration: connects, accepts and
\* suspended handshakes, while time passes.
Next ==
    \/ \E domain \in 1..NumSites :
          MayConnect(domain, MaxRevisits) /\ Connect(domain, AnyStream)
    \/ Accept(AnyStream)
    \/ Resume
    \/ Deliver
    \/ \E d \in TickSteps : Tick(d)

Spec == Init /\ [][Next]_vars

\* A connector with session tickets enabled and the default trust policy,
\* connecting to more domains than the cache holds, all within one second.
InitCache ==
    /\ session_tickets_enabled = TRUE
    /\ accept_invalid_certs = FALSE
    /\ disable_built_in_roots = FALSE
    /\ Start

NextCache ==
    \E domain \in Domains :
       MayConnect(domain, MaxCacheRevisits) /\ Connect(domain, AnyStream)

SpecCache == InitCache /\ [][NextCache]_vars

\* Certificate validation alone: every trust configuration, every set of
\* caller-supplied roots, every validation result.
InitVerify ==
    /\ accept_invalid_certs \in BOOLEAN
    /\ disable_built_in_roots \in BOOLEAN
    /\ roots \in SUBSET Certs
    /\ vres \in ValidationResults
    /\ vout = "Idle"
    /\ session_tickets_enabled = FALSE
    /\ credentials_cache = << >>
    /\ now = 0
    /\ hs = "NotStarted"
    /\ mid = NoMid
    /\ transport = NoStream
    /\ avail = FALSE
    /\ last = Idle("new")
    /\ revisits = 0
    /\ ticks = 0
    /\ AuxIdle

\* The native engine validates the peer's chain during a handshake.
Verify ==
    /\ vout = "Idle"
    /\ vout' = validate(accept_invalid_certs, disable_built_in_roots, roots,
                        vres)
    /\ UNCHANGED <<config, credentials_cache, now, hs, mid, transport, avail,
                   last, revisits, ticks, vres, aux>>

SpecVerify == InitVerify /\ [][Verify]_vars

(* ---------------- building the native credential: actions ------------- *)

InitMapping ==
    /\ builder \in Builders
    /\ constructed = FALSE
    /\ supported_algorithms = << >>
    /\ request = NoRequest
    /\ QueriesIdle
    /\ ConcurrencyIdle
    /\ session_tickets_enabled = FALSE
    /\ accept_invalid_certs = FALSE
    /\ disable_built_in_roots = FALSE
    /\ roots = {}
    /\ credentials_cache = << >>
    /\ now = 0
    /\ hs = "NotStarted"
    /\ mid = NoMid
    /\ transport = NoStream
    /\ avail = FALSE
    /\ last = Idle("new")
    /\ revisits = 0
    /\ ticks = 0
    /\ vres = [result |-> "Ok", chain |-> NoChain]
    /\ vout = "Idle"

\* TlsConnector::new: the cipher-suite policy is mapped once.
ConnectorNew ==
    /\ ~constructed
    /\ constructed' = TRUE
    /\ supported_algorithms' =
          IF builder.cipher_suites # None
          THEN expand_algorithms(builder.cipher_suites[1])
          ELSE << >>
    /\ UNCHANGED <<config, credentials_cache, now, hs, mid, transport, avail,
                   last, revisits, ticks, vres, vout, builder, request, queries,
                   concurrency>>

\* The tail of get_credentials: what the native builder is given before
\* acquire(Direction::Outbound).
AcquireOutbound ==
    /\ constructed
    /\ request' =
          [direction |-> "Outbound",
           enabled_protocols |-> convert_protocols(builder.min_protocol,
                                                   builder.max_protocol),
           cert |-> builder.identity,
           supported_algorithms |-> supported_algorithms]
    /\ UNCHANGED <<config, credentials_cache, now, hs, mid, transport, avail,
                   last, revisits, ticks, vres, vout, builder, constructed,
                   supported_algorithms, queries, concurrency>>

\* The head of accept: what the native builder is given before
\* acquire(Direction::Inbound).  An acceptor always has an identity.
AcquireInbound ==
    /\ builder.identity
    /\ request' =
          [direction |-> "Inbound",
           enabled_protocols |-> convert_protocols(builder.min_protocol,
                                                   builder.max_protocol),
           cert |-> TRUE,
           supported_algorithms |-> << >>]
    /\ UNCHANGED <<config, credentials_cache, now, hs, mid, transport, avail,
                   last, revisits, ticks, vres, vout, builder, constructed,
                   supported_algorithms, queries, concurrency>>

NextMapping == ConnectorNew \/ AcquireOutbound \/ AcquireInbound

\* Every builder configuration, turned into native credential requests.
SpecMapping == InitMapping /\ [][NextMapping]_vars

(* ---------------------- queries of a TlsStream: actions --------------- *)

InitQueries ==
    /\ tls \in TlsStreams
    /\ answer = NoAnswer
    /\ MappingIdle
    /\ ConcurrencyIdle
    /\ session_tickets_enabled = FALSE
    /\ accept_invalid_certs = FALSE
    /\ disable_built_in_roots = FALSE
    /\ roots = {}
    /\ credentials_cache = << >>
    /\ now = 0
    /\ hs = "Complete"
    /\ mid = NoMid
    /\ transport = NoStream
    /\ avail = FALSE
    /\ last = Idle("new")
    /\ revisits = 0
    /\ ticks = 0
    /\ vres = [result |-> "Ok", chain |-> NoChain]
    /\ vout = "Idle"

\* stream.peer_certificate()
PeerCertificate ==
    /\ answer' = peer_certificate(tls)
    /\ UNCHANGED <<config, credentials_cache, now, hs, mid, transport, avail,
                   last, revisits, ticks, vres, vout, mapping, tls, concurrency>>

\* stream.tls_server_end_point()
TlsServerEndPoint ==
    /\ answer' = tls_server_end_point(tls)
    /\ UNCHANGED <<config, credentials_cache, now, hs, mid, transport, avail,
                   last, revisits, ticks, vres, vout, mapping, tls, concurrency>>

NextQueries == PeerCertificate \/ TlsServerEndPoint

\* An established stream of either role, queried for the peer's certificate
\* and for the channel binding.
SpecQueries == InitQueries /\ [][NextQueries]_vars

(* --------------- threads sharing one connector: actions --------------- *)

\* The cache after `filled` successful connects to the domains 1..filled, in
\* that order, all at time 0.
CacheAfter(filled) ==
    [i \in 1..filled |-> CacheEntry(i, CREDENTIAL_TTL, i)]

\* The cache is empty, one short of full, or full when the threads start,
\* and its entries are fresh or have just expired.
InitThreads ==
    /\ session_tickets_enabled = TRUE
    /\ accept_invalid_certs = FALSE
    /\ disable_built_in_roots = FALSE
    /\ roots = {1}
    /\ \E filled \in {0, CREDENTIAL_CACHE_SIZE - 1, CREDENTIAL_CACHE_SIZE} :
          credentials_cache = CacheAfter(filled)
    /\ now \in {0, CREDENTIAL_TTL}
    /\ hs = "NotStarted"
    /\ mid = NoMid
    /\ transport = NoStream
    /\ avail = FALSE
    /\ last = Idle("new")
    /\ revisits = 0
    /\ ticks = 0
    /\ vres = [result |-> "Ok", chain |-> NoChain]
    /\ vout = "Idle"
    /\ MappingIdle
    /\ QueriesIdle
    /\ ConcurrencyIdle

\* What a thread's step leaves alone.
ThreadFrame ==
    UNCHANGED <<config, now, hs, mid, transport, avail, last, revisits,
                ticks, vres, vout, mapping, queries>>

Goto(t, pc) == [threads EXCEPT ![t].pc = pc]

\* connect(domain, stream) is called on the thread's clone of the connector:
\* get_credentials starts, and with session tickets enabled it goes for the
\* lock.
Call(t, domain) ==
    /\ threads[t].pc = "idle"
    /\ threads' = [threads EXCEPT
                      ![t] = [pc |-> IF session_tickets_enabled
                                     THEN "lookup_lock" ELSE "acquire",
                              domain |-> domain, found |-> 0,
                              cred |-> NoCred]]
    /\ UNCHANGED <<credentials_cache, lock>>
    /\ ThreadFrame

\* get_credentials: let mut cache = self.credentials_cache.lock().unwrap();
LookupLock(t) ==
    /\ threads[t].pc = "lookup_lock"
    /\ lock_acquired(lock)
    /\ lock' = t
    /\ threads' = Goto(t, "lookup_scan")
    /\ UNCHANGED credentials_cache
    /\ ThreadFrame

\* get_credentials: the for loop that sets found.
LookupScan(t) ==
    /\ threads[t].pc = "lookup_scan"
    /\ threads' = [threads EXCEPT
                      ![t].pc = "lookup_take",
                      ![t].found = find(credentials_cache, threads[t].domain)]
    /\ UNCHANGED <<credentials_cache, lock>>
    /\ ThreadFrame

\* get_credentials: if let Some(idx) = found { ... }, and the end of the
\* guard's scope (by return on a hit, by leaving the block otherwise).
LookupTake(t) ==
    /\ threads[t].pc = "lookup_take"
    /\ LET idx == threads[t].found
           entry == credentials_cache[idx]
           removed == IF idx # 0 THEN remove(credentials_cache, idx)
                      ELSE credentials_cache
       IN  IF idx # 0 /\ entry.expiry > now
           THEN /\ credentials_cache' =
                      push_back(removed,
                                CacheEntry(entry.domain, now + CREDENTIAL_TTL,
                                           entry.credentials))
                /\ threads' = [threads EXCEPT
                                  ![t].pc = "handshake",
                                  ![t].cred = entry.credentials]
           ELSE /\ credentials_cache' = removed
                /\ threads' = Goto(t, "acquire")
    /\ lock' = NoThread
    /\ ThreadFrame

\* get_credentials: builder.acquire(Direction::Outbound), and connect's `?`.
Acquire(t) ==
    /\ threads[t].pc = "acquire"
    /\ \E acquire_ok \in BOOLEAN :
          threads' = [threads EXCEPT
                         ![t].pc = IF acquire_ok THEN "handshake" ELSE "done",
                         ![t].cred =
                            IF acquire_ok
                            THEN acquire(AliveCreds(credentials_cache,
                                                    threads))
                            ELSE NoCred]
    /\ UNCHANGED <<credentials_cache, lock>>
    /\ ThreadFrame

\* connect: builder.connect(cred.clone(), stream) and the match on it.
Handshake(t) ==
    /\ threads[t].pc = "handshake"
    /\ \E native \in NativeOutcomes :
          threads' = Goto(t, IF native # "Complete" THEN "done"
                             ELSE IF session_tickets_enabled
                             THEN "store_lock" ELSE "done")
    /\ UNCHANGED <<credentials_cache, lock>>
    /\ ThreadFrame

\* store_credentials: let mut cache = self.credentials_cache.lock().unwrap();
StoreLock(t) ==
    /\ threads[t].pc = "store_lock"
    /\ lock_acquired(lock)
    /\ lock' = t
    /\ threads' = Goto(t, "store_scan")
    /\ UNCHANGED credentials_cache
    /\ ThreadFrame

\* store_credentials: the for loop that sets found.
StoreScan(t) ==
    /\ threads[t].pc = "store_scan"
    /\ threads' = [threads EXCEPT
                      ![t].pc = "store_put",
                      ![t].found = find(credentials_cache, threads[t].domain)]
    /\ UNCHANGED <<credentials_cache, lock>>
    /\ ThreadFrame

\* store_credentials: remove, pop_front, push_back, and the end of the
\* guard's scope.
StorePut(t) ==
    /\ threads[t].pc = "store_put"
    /\ LET idx == threads[t].found
           removed == IF idx # 0 THEN remove(credentials_cache, idx)
                      ELSE credentials_cache
           evicted == IF Len(removed) = CREDENTIAL_CACHE_SIZE
                      THEN pop_front(removed) ELSE removed
       IN  credentials_cache' =
              push_back(evicted,
                        CacheEntry(threads[t].domain, now + CREDENTIAL_TTL,
                                   threads[t].cred))
    /\ lock' = NoThread
    /\ threads' = Goto(t, "done")
    /\ ThreadFrame

\* The domains the threads name: the first, the last the cache has room
\* for and the one after it.  They are cached or not, depending on how full
\* the cache is when the threads start.
ThreadDomains == {1, CREDENTIAL_CACHE_SIZE, CREDENTIAL_CACHE_SIZE + 1}

NextThreads ==
    \E t \in Threads :
       \/ \E domain \in ThreadDomains : Call(t, domain)
       \/ LookupLock(t)
       \/ LookupScan(t)
       \/ LookupTake(t)
       \/ Acquire(t)
       \/ Handshake(t)
       \/ StoreLock(t)
       \/ StoreScan(t)
       \/ StorePut(t)

\* NumThreads threads, each calling connect once on its clone of one
\* connector, interleaved at every step.
SpecThreads == InitThreads /\ [][NextThreads]_vars

(* ------------------- a caller that keeps resuming --------------------- *)

\* The caller starts a handshake on any of its transports when it holds no
\* suspended one, and resumes the one it holds; the peer's bytes arrive.
NextLive ==
    \/ /\ hs # "InProgress"
       /\ \E stream \in Streams :
             \/ MayConnect(1, MaxRevisits) /\ Connect(1, stream)
             \/ Accept(stream)
    \/ Resume
    \/ Deliver

\* A resumed handshake ended, one way or the other.
Finish == Resume /\ hs' # "InProgress"

\* The peer's bytes keep arriving while a handshake waits for them, and a
\* handshake that is resumed again and again with the peer's bytes at hand
\* gets all the bytes it needs.
SpecLive ==
    /\ Init
    /\ [][NextLive]_vars
    /\ WF_vars(Deliver)
    /\ SF_vars(Finish)

(* ------------------------ the credential cache: claims ---------------- *)

\* The step is a call of connect(domain, _): every other action leaves
\* another op in last, and a call that changes nothing at all is a
\* stuttering step.
ConnectStep(domain) == last'.op = "connect" /\ last'.domain = domain

\* C1: whatever connects were made, the cache holds at most
\* CREDENTIAL_CACHE_SIZE (10) entries.
C1_CacheNeverExceedsCapacity ==
    Len(credentials_cache) <= CREDENTIAL_CACHE_SIZE

\* The cache is full after an eleventh domain was stored.
C1_Witness ==
    /\ Len(credentials_cache) = CREDENTIAL_CACHE_SIZE
    /\ (CREDENTIAL_CACHE_SIZE + 1) \in CachedDomains(credentials_cache)

\* C2: no two entries of the cache have the same domain.
C2_OneEntryPerDomain ==
    \A i, j \in 1..Len(credentials_cache) :
       credentials_cache[i].domain = credentials_cache[j].domain => i = j

\* A connect found its domain in the cache, got the cached credential, and
\* stored it again on success, with other domains cached beside it.
C2_Witness ==
    /\ last.op = "connect" /\ last.hit /\ last.result = "Ok"
    /\ last.domain \in CachedDomains(credentials_cache)
    /\ Len(credentials_cache) >= 2

\* C4: a successful connect to an uncached domain while the cache is full
\* removes exactly the head and appends the new entry at the tail; and in
\* every connect the entries of the other domains that stay are unchanged
\* and keep their relative order.
C4_EvictsHeadKeepsOrder ==
    [][\A domain \in Domains :
         (session_tickets_enabled /\ ConnectStep(domain)) =>
         LET old == credentials_cache
             new == credentials_cache'
         IN  /\ ( /\ last'.result = "Ok"
                  /\ domain \notin CachedDomains(old)
                  /\ Len(old) = CREDENTIAL_CACHE_SIZE )
                => /\ Len(new) = CREDENTIAL_CACHE_SIZE
                   /\ \A i \in 1..(CREDENTIAL_CACHE_SIZE - 1) :
                         new[i] = old[i + 1]
                   /\ new[CREDENTIAL_CACHE_SIZE].domain = domain
                   /\ new[CREDENTIAL_CACHE_SIZE].credentials = last'.cred
             /\ \A i, j \in 1..Len(new) :
                   (i < j /\ new[i].domain # domain /\ new[j].domain # domain)
                   => \E k, l \in 1..Len(old) :
                         k < l /\ old[k] = new[i] /\ old[l] = new[j]
             /\ (last'.hit \/ last'.result = "Ok")
                => Len(new) > 0 /\ new[Len(new)].domain = domain
    ]_vars

\* The eleventh domain was stored into a full cache whose order an earlier
\* hit had changed: the head is gone, the rest is in place.
C4_Witness ==
    /\ last.op = "connect" /\ last.result = "Ok" /\ ~last.found
    /\ last.domain = CREDENTIAL_CACHE_SIZE + 1
    /\ Len(credentials_cache) = CREDENTIAL_CACHE_SIZE
    /\ revisits = 1
    /\ \E i \in 1..(Len(credentials_cache) - 1) :
          credentials_cache[i].domain > credentials_cache[i + 1].domain

ExpiredEntry(cache, domain, t) ==
    \E i \in 1..Len(cache) : cache[i].domain = domain /\ cache[i].expiry <= t

\* C3: a connect that finds its domain's entry with an expiry not later than
\* the clock does not return that entry's credential: it requests a fresh
\* one, and the expired entry is gone; the domain is cached again only by
\* the store of a successful handshake, with the fresh credential.
C3_ExpiredEntryIsNeverReturned ==
    [][\A domain \in Domains :
         ( /\ session_tickets_enabled
           /\ ConnectStep(domain)
           /\ ExpiredEntry(credentials_cache, domain, now) )
         => /\ last'.found /\ ~last'.hit /\ last'.acquires = 1
            /\ last'.result # "Ok" =>
                  /\ domain \notin CachedDomains(credentials_cache')
                  /\ Len(credentials_cache') = Len(credentials_cache) - 1
            /\ \A i \in 1..Len(credentials_cache') :
                  credentials_cache'[i].domain = domain =>
                     /\ last'.result = "Ok"
                     /\ credentials_cache'[i].credentials = last'.cred
                     /\ credentials_cache'[i].expiry = now + CREDENTIAL_TTL
    ]_vars

\* A connect found its domain's entry, expired, and the handshake with the
\* fresh credential did not complete: the domain is no longer cached.
C3_Witness ==
    /\ last.op = "connect" /\ last.found /\ ~last.hit /\ last.acquires = 1
    /\ last.result # "Ok"
    /\ last.cred # NoCred
    /\ last.domain \notin CachedDomains(credentials_cache)

\* C5: with session tickets enabled, a connect to the domain of the
\* connection that has just completed (by connect or by a resumed handshake)
\* is a cache hit: it returns that connection's credential and requests none
\* from the native engine.
C5_SecondConnectionHits ==
    [][\A domain \in Domains :
         ( /\ session_tickets_enabled
           /\ last.op \in {"connect", "resume"}
           /\ last.result = "Ok"
           /\ last.domain = domain
           /\ ConnectStep(domain) )
         => /\ last'.hit
            /\ last'.acquires = 0
            /\ last'.cred = last.cred
    ]_vars

\* C6: with session tickets disabled the cache is always empty and every
\* connect requests a credential from the native engine.
C6_DisabledTicketsCacheNothing ==
    ~session_tickets_enabled =>
       /\ credentials_cache = << >>
       /\ last.op = "connect" =>
             ~last.found /\ ~last.hit /\ last.acquires = 1

\* With session tickets disabled a connect completed, on a fresh credential.
C6_Witness ==
    /\ ~session_tickets_enabled
    /\ last.op = "connect" /\ last.result = "Ok" /\ last.cred # NoCred

\* C7: with session tickets enabled, once a client handshake has succeeded,
\* in connect or in a resumed handshake, the cache holds its credential
\* under its domain.
C7_SuccessIsCached ==
    ( /\ session_tickets_enabled
      /\ last.op \in {"connect", "resume"}
      /\ last.domain # NoDomain
      /\ last.result = "Ok" )
    => \E i \in 1..Len(credentials_cache) :
          /\ credentials_cache[i].domain = last.domain
          /\ credentials_cache[i].credentials = last.cred

(* ------------------------------ trust: claims ------------------------- *)

ChainHasRoot ==
    vres.chain # NoChain /\ (vres.chain[1] \cap roots) # {}

\* C8: with disable_built_in_roots set and accept_invalid_certs unset,
\* validation ends with the platform's own error whenever the platform
\* failed; when the platform succeeded it ends with Ok if a certificate of
\* the chain is one of the caller's roots and with the NoUserRoot error
\* otherwise, no chain included; NoUserRoot is no platform error.
C8_OwnRootOverride ==
    (vout # "Idle" /\ disable_built_in_roots /\ ~accept_invalid_certs) =>
       /\ vres.result # "Ok" => vout = vres.result
       /\ vres.result = "Ok" =>
             vout = IF ChainHasRoot THEN "Ok" ELSE NoUserRoot
       /\ NoUserRoot \notin PlatformResults

\* The platform accepted a chain that holds none of the caller's roots.
C8_Witness ==
    /\ disable_built_in_roots /\ ~accept_invalid_certs
    /\ vres.result = "Ok" /\ vres.chain # NoChain /\ vres.chain[1] # {}
    /\ roots # {}
    /\ vout = NoUserRoot

\* C9: with accept_invalid_certs set the accept-all callback is installed
\* and validation ends with Ok, whatever the platform says and whatever
\* disable_built_in_roots is; with neither flag set no callback is installed
\* and validation ends with the platform's result.
C9_AcceptInvalidCertsWins ==
    vout # "Idle" =>
       /\ accept_invalid_certs =>
             /\ install_callback(accept_invalid_certs,
                                 disable_built_in_roots) = "AcceptAll"
             /\ vout = "Ok"
       /\ (~accept_invalid_certs /\ ~disable_built_in_roots) =>
             /\ install_callback(accept_invalid_certs,
                                 disable_built_in_roots) = "None"
             /\ vout = vres.result

\* Both flags set, the platform rejected the chain, validation ended Ok.
C9_Witness ==
    /\ accept_invalid_certs /\ disable_built_in_roots
    /\ vres.result # "Ok"
    /\ vout = "Ok"

(* ---------------------------- handshake: claims ----------------------- *)

\* C10: a handshake never goes back to NotStarted; Complete and Failed are
\* left only by a new connect or accept; only a handshake in progress is
\* resumed, and resumed with no unread bytes it returns WouldBlock and stays
\* in progress with the same suspended value; a call returns WouldBlock
\* exactly when its one native call was interrupted.
C10_HandshakeOnlyMovesForward ==
    /\ [](/\ last.native = "Interrupted" <=> last.result = "WouldBlock"
          /\ last.result = "WouldBlock" => hs = "InProgress"
          /\ last.native = "Failure" <=>
                (last.result = "Failure" /\ last.error # "Acquire")
          /\ last.steps <= 1
          /\ hs = "InProgress" <=> mid # NoMid)
    /\ [][/\ hs # "NotStarted" => hs' # "NotStarted"
          /\ (hs = "NotStarted" /\ hs' # "NotStarted")
                => last'.op \in {"connect", "accept"}
          /\ (hs \in {"Complete", "Failed"}
                /\ last'.op \notin {"connect", "accept"}) => hs' = hs
          /\ last'.op = "resume" =>
                /\ hs = "InProgress"
                /\ hs' \in {"InProgress", "Complete", "Failed"}
                /\ ~last'.bytes =>
                      /\ last'.result = "WouldBlock"
                      /\ hs' = "InProgress"
                      /\ mid' = mid
         ]_vars

\* A handshake was resumed with no unread bytes and is still in progress.
C10_Witness ==
    /\ last.op = "resume" /\ ~last.bytes
    /\ last.result = "WouldBlock"
    /\ hs = "InProgress"

(* ------------------------ suspended handshakes: claims ---------------- *)

\* C11: a suspended handshake that the caller keeps resuming, on a
\* transport that delivers the bytes it needs, eventually is Complete or
\* Failed; the value every WouldBlock carries holds the transport that was
\* passed to the connect or accept that started the handshake, and a resume
\* that suspends again hands on the transport it was given.
C11_ResumedHandshakeEnds ==
    /\ (hs = "InProgress") ~> (hs \in {"Complete", "Failed"})
    /\ [](hs = "InProgress" =>
             /\ transport \in Streams
             /\ mid.stream = transport)
    /\ [][(last'.op = "resume" /\ last'.result = "WouldBlock")
             => mid'.stream = mid.stream]_vars

\* A handshake started by accept on the second transport was suspended and
\* completed in a resume that had the peer's bytes.
C11_Witness ==
    /\ last.op = "resume" /\ last.bytes /\ last.result = "Ok"
    /\ last.domain = NoDomain
    /\ transport = NumStreams
    /\ hs = "Complete"

(* ----------------------- failed connects: claims ---------------------- *)

\* C16: a connect that returns Failure or WouldBlock stores nothing: every
\* domain cached after the call was cached before it, the cache is no
\* longer than it was, and every cached credential was cached before under
\* the same domain.
C16_FailedConnectStoresNothing ==
    [][\A domain \in Domains :
         ( /\ ConnectStep(domain)
           /\ last'.result \in {"Failure", "WouldBlock"} )
         => LET old == credentials_cache
                new == credentials_cache'
            IN  /\ CachedDomains(new) \subseteq CachedDomains(old)
                /\ Len(new) <= Len(old)
                /\ \A i \in 1..Len(new) : \E k \in 1..Len(old) :
                      /\ old[k].domain = new[i].domain
                      /\ old[k].credentials = new[i].credentials
    ]_vars

\* With another domain cached, a connect to an uncached domain acquired a
\* credential and was suspended: its domain is not cached.
C16_Witness ==
    /\ session_tickets_enabled
    /\ last.op = "connect" /\ last.result = "WouldBlock" /\ ~last.found
    /\ last.cred # NoCred
    /\ credentials_cache # << >>
    /\ last.domain \notin CachedDomains(credentials_cache)

\* C17: when the native engine refuses the credential, connect and accept
\* return Failure with that error at once: one acquisition was attempted,
\* no handshake step ran on the transport, no handshake is held, and the
\* cache gained nothing (accept leaves it as it was).
C17_RefusedCredentialFailsAtOnce ==
    /\ []( (last.op \in {"connect", "accept"} /\ last.cred = NoCred)
           => /\ last.result = "Failure"
              /\ last.error = "Acquire"
              /\ last.acquires = 1
              /\ last.steps = 0
              /\ last.native = "None"
              /\ ~last.hit
              /\ hs = "Failed"
              /\ mid = NoMid )
    /\ [][(last'.op \in {"connect", "accept"} /\ last'.cred = NoCred)
          => /\ CachedDomains(credentials_cache')
                   \subseteq CachedDomains(credentials_cache)
             /\ Len(credentials_cache') <= Len(credentials_cache)
             /\ last'.op = "accept"
                   => credentials_cache' = credentials_cache
         ]_vars

\* A connect found its domain's entry expired, asked for a fresh credential
\* and was refused.
C17_Witness ==
    /\ last.op = "connect" /\ last.cred = NoCred /\ last.found
    /\ last.result = "Failure" /\ last.error = "Acquire"
    /\ hs = "Failed"

\* C20: when a connect gets a cache hit and its handshake then fails or is
\* suspended, the domain's entry is still cached, at the tail, with the
\* credential that was returned and an expiry of lookup time + TTL; a
\* lookup of that domain at any time before that expiry returns the same
\* credential, and so does the next connect to that domain.
C20_HitRefreshSurvivesFailure ==
    /\ [][\A domain \in Domains :
            ( /\ ConnectStep(domain)
              /\ last'.hit
              /\ last'.result # "Ok" )
            => LET old == credentials_cache
                   new == credentials_cache'
               IN  /\ Len(new) = Len(old)
                   /\ Len(new) > 0
                   /\ new[Len(new)] =
                         CacheEntry(domain, now + CREDENTIAL_TTL, last'.cred)
                   /\ \E k \in 1..Len(old) :
                         /\ old[k].domain = domain
                         /\ old[k].credentials = last'.cred
                         /\ old[k].expiry > now
                   /\ \A t \in {now, now + CREDENTIAL_TTL - 1} :
                         LET again == get_credentials(session_tickets_enabled,
                                         new, domain, t, TRUE, {})
                         IN  again.hit /\ again.cred = last'.cred
         ]_vars
    /\ [][( /\ last.op = "connect"
            /\ last.hit
            /\ last.result # "Ok"
            /\ ConnectStep(last.domain) )
          => /\ last'.hit
             /\ last'.acquires = 0
             /\ last'.cred = last.cred
         ]_vars

\* One second before its entry expired a connect got the cached credential
\* and the handshake failed: the entry is at the tail, renewed.
C20_Witness ==
    /\ last.op = "connect" /\ last.hit /\ last.result = "Failure"
    /\ now = CREDENTIAL_TTL - 1
    /\ Len(credentials_cache) >= 2
    /\ credentials_cache[Len(credentials_cache)] =
          CacheEntry(last.domain, now + CREDENTIAL_TTL, last.cred)

(* --------------------- protocols and algorithms: claims --------------- *)

\* The versions a credential request enables.
EnabledVersions == {VersionOf[request.enabled_protocols[i]] :
                       i \in 1..Len(request.enabled_protocols)}

MinVersion ==
    IF builder.min_protocol = None THEN 1
    ELSE VersionOf[builder.min_protocol[1]]

MaxVersion ==
    IF builder.max_protocol = None THEN Len(PROTOCOLS)
    ELSE VersionOf[builder.max_protocol[1]]

\* C12: for every min and max in {unset, SSLv3, TLS1.0, TLS1.1, TLS1.2} the
\* versions a credential request enables are exactly the supported versions
\* v with min <= v <= max, an unset bound being no limit; so a configured
\* min and a configured max that admit any version are enabled themselves.
C12_EnabledVersionsAreTheRange ==
    request.direction # "None" =>
       EnabledVersions = {v \in 1..Len(PROTOCOLS) :
                             MinVersion <= v /\ v <= MaxVersion}

\* C19: every version a credential request enables is at or above the
\* configured minimum, whatever the maximum is.
C19_NothingBelowTheMinimum ==
    request.direction # "None" =>
       \A v \in EnabledVersions : MinVersion <= v

\* The variants of the four enumerations, tagged with their enumeration.
AbstractAlgorithms ==
    ({"key_exchange"} \X TlsKeyExchangeAlgorithm)
       \cup ({"signature"} \X TlsSignatureAlgorithm)
       \cup ({"bulk_encryption"} \X TlsBulkEncryptionAlgorithm)
       \cup ({"hash"} \X TlsHashAlgorithm)

AlgorithmFrom(a) ==
    CASE a[1] = "key_exchange" -> from_key_exchange(a[2])
      [] a[1] = "signature" -> from_signature(a[2])
      [] a[1] = "bulk_encryption" -> from_bulk_encryption(a[2])
      [] a[1] = "hash" -> from_hash(a[2])

\* C13: each of the four conversions gives every variant a native
\* identifier, no two variants of the four enumerations together get the
\* same one, and a connector's algorithm list is the policy's key-exchange,
\* signature, bulk-encryption and hash lists in that order, one identifier
\* per element, in the element's place.
C13_AlgorithmsMapOneToOneInOrder ==
    /\ \A a \in AbstractAlgorithms : AlgorithmFrom(a) \in Algorithm
    /\ \A a, b \in AbstractAlgorithms :
          a # b => AlgorithmFrom(a) # AlgorithmFrom(b)
    /\ (constructed /\ builder.cipher_suites = None)
          => supported_algorithms = << >>
    /\ (constructed /\ builder.cipher_suites # None)
          => LET cs == builder.cipher_suites[1]
                 kx == Len(cs.key_exchange)
                 sg == Len(cs.signature)
                 be == Len(cs.bulk_encryption)
                 out == supported_algorithms
             IN  /\ Len(out) = kx + sg + be + Len(cs.hash)
                 /\ \A i \in 1..kx :
                       out[i] = from_key_exchange(cs.key_exchange[i])
                 /\ \A i \in 1..sg :
                       out[kx + i] = from_signature(cs.signature[i])
                 /\ \A i \in 1..be :
                       out[kx + sg + i] =
                          from_bulk_encryption(cs.bulk_encryption[i])
                 /\ \A i \in 1..Len(cs.hash) :
                       out[kx + sg + be + i] = from_hash(cs.hash[i])

\* A policy of RSA signatures and RSA key exchange, listed in that order by
\* the caller's builder calls, became key exchange first and two different
\* identifiers.
C13_Witness ==
    /\ constructed
    /\ builder.cipher_suites # None
    /\ builder.cipher_suites[1].key_exchange = <<"Rsa">>
    /\ builder.cipher_suites[1].signature = <<"Rsa">>
    /\ supported_algorithms = <<"RsaKeyx", "RsaSign">>
    /\ request.direction = "Outbound"
    /\ request.supported_algorithms = supported_algorithms

(* ------------------------ stream queries: claims ---------------------- *)

\* The native answer on the server's certificate: the stream's own
\* certificate in the server role, the peer's in the client role.
ServerCertificate ==
    IF tls.is_server THEN tls.certificate ELSE tls.peer_certificate

\* The last '/'-separated component of the signature-hash name.
HashFamily ==
    tls.sign_hash_algorithms.value[Len(tls.sign_hash_algorithms.value)]

\* C14: when the server's certificate and its signature-hash name are
\* available, tls_server_end_point looks at the last '/'-separated
\* component of the name: for MD5, SHA1 and SHA256 it digests the server's
\* certificate (its own as server, the peer's as client) with SHA-256, for
\* SHA384 with SHA-384, for SHA512 with SHA-512 (an error only if the digest
\* itself fails), and for any other component it returns Ok(None).
C14_EndPointHashFollowsSignature ==
    ( /\ answer.op = "tls_server_end_point"
      /\ ServerCertificate.ok
      /\ tls.sign_hash_algorithms.ok )
    => LET digest(hash) ==
              IF tls.fingerprint.ok
              THEN answer = OkSome("tls_server_end_point",
                                   IF tls.is_server THEN OwnCert
                                   ELSE PeerCert, hash)
              ELSE answer.kind = "Err"
       IN  /\ HashFamily \in {"MD5", "SHA1", "SHA256"} => digest("sha256")
           /\ HashFamily = "SHA384" => digest("sha384")
           /\ HashFamily = "SHA512" => digest("sha512")
           /\ HashFamily \notin {"MD5", "SHA1", "SHA256", "SHA384", "SHA512"}
                 => answer = OkNone("tls_server_end_point")

\* A client asked for the binding of a peer certificate signed RSA/SHA384
\* and got its SHA-384 digest.
C14_Witness ==
    /\ answer.op = "tls_server_end_point"
    /\ ~tls.is_server
    /\ tls.sign_hash_algorithms.ok
    /\ tls.sign_hash_algorithms.value = <<"RSA", "SHA384">>
    /\ answer.kind = "Some" /\ answer.cert = PeerCert
    /\ answer.hash = "sha384"

\* C15: peer_certificate and tls_server_end_point return Ok(None) when the
\* native certificate query fails with the OS error SEC_E_NO_CREDENTIALS
\* (0x8009030E, as a signed 32-bit code -2146893042), Err carrying the native error when
\* it fails with any other error, and never Ok(None) or Err for a
\* certificate peer_certificate was given.
C15_NoCredentialsIsNone ==
    LET query == IF answer.op = "peer_certificate" THEN tls.peer_certificate
                 ELSE ServerCertificate
        no_credentials == OsError(-2146893042)
    IN  answer.op # "None" =>
           /\ (~query.ok /\ query.error = no_credentials)
                 => answer = OkNone(answer.op)
           /\ (~query.ok /\ query.error # no_credentials)
                 => answer = Err(answer.op, query.error)
           /\ (query.ok /\ answer.op = "peer_certificate")
                 => answer = OkSome("peer_certificate", PeerCert, "")

\* The native query of a client's peer certificate failed with
\* SEC_E_NO_CREDENTIALS and the binding is Ok(None).
C15_Witness ==
    /\ answer.op = "tls_server_end_point"
    /\ ~tls.is_server
    /\ ~tls.peer_certificate.ok
    /\ tls.peer_certificate.error = OsError(-2146893042)
    /\ answer.kind = "None"

(* ----------------------- concurrent connects: claims ------------------ *)

\* The program counters of the code between lock() and the end of the
\* guard's scope.
UnderLock == {"lookup_scan", "lookup_take", "store_scan", "store_put"}

\* C18: with threads calling connect concurrently on clones of one
\* connector, in every interleaving: a thread is between a lock() and the
\* end of that guard's scope exactly when it holds the cache lock, so never
\* while it acquires a native credential or runs a handshake step; what a
\* thread's scan found is still what the cache holds when it removes and
\* pushes; the cache has at most CREDENTIAL_CACHE_SIZE entries and one entry
\* per domain.
C18_LockGuardsEveryCacheAccess ==
    /\ \A t \in Threads : threads[t].pc \in UnderLock <=> lock = t
    /\ \A t \in Threads :
          threads[t].pc \in {"acquire", "handshake"} => lock # t
    /\ \A t \in Threads :
          threads[t].pc \in {"lookup_take", "store_put"} =>
             threads[t].found = find(credentials_cache, threads[t].domain)
    /\ Len(credentials_cache) <= CREDENTIAL_CACHE_SIZE
    /\ \A i, j \in 1..Len(credentials_cache) :
          credentials_cache[i].domain = credentials_cache[j].domain => i = j

\* Two threads made a first connection to the same uncached domain at the
\* same time, each with its own fresh credential; both handshakes completed
\* and both stored, into a full cache.
C18_Witness ==
    /\ \E t, u \in Threads :
          /\ t # u
          /\ threads[t].pc = "done" /\ threads[u].pc = "done"
          /\ threads[t].domain = CREDENTIAL_CACHE_SIZE + 1
          /\ threads[u].domain = CREDENTIAL_CACHE_SIZE + 1
          /\ threads[t].cred # NoCred /\ threads[u].cred # NoCred
          /\ threads[t].cred # threads[u].cred
          /\ threads[t].cred \in CachedCreds(credentials_cache)
          /\ threads[u].cred \notin CachedCreds(credentials_cache)
    /\ Len(credentials_cache) = CREDENTIAL_CACHE_SIZE
    /\ 1 \notin CachedDomains(credentials_cache)

====
